---- MODULE Spec2Model ----
(***************************************************************************)
(* The openAndWait browser command of hermione                             *)
(* (src/browser/commands/openAndWait.ts) as a state machine: one           *)
(* invocation of the command, the promise it builds, the three readiness   *)
(* flags, the handlers it registers on its PageLoader, and the events the  *)
(* PageLoader and the session deliver to them.                             *)
(*                                                                         *)
(* The PageLoader side (which events it emits and when, load(),            *)
(* unsubscribe()) follows the specification's description of the watchers: *)
(* they run concurrently with the navigation, each reaches a terminal      *)
(* state at most once, and unsubscribe() detaches the listeners and        *)
(* cancels the watchers.                                                   *)
(***************************************************************************)
EXTENDS Integers, Sequences, FiniteSets, TLC

(***************************************************************************)
(* Bounds of the model.                                                    *)
(***************************************************************************)
\* how many networkError events the PageLoader emits in one invocation
MaxNetErrors == 2

(***************************************************************************)
(* String helpers: the JavaScript String methods the command uses.         *)
(***************************************************************************)
\* String.prototype.endsWith
EndsWith(str, suffix) ==
    /\ Len(suffix) <= Len(str)
    /\ SubSeq(str, Len(str) - Len(suffix) + 1, Len(str)) = suffix

\* the 0-based offsets >= from at which pat occurs in str
OccurrencesFrom(str, pat, from) ==
    { i \in from .. (Len(str) - Len(pat)) : SubSeq(str, i + 1, i + Len(pat)) = pat }

\* String.prototype.includes
Includes(str, pat) == OccurrencesFrom(str, pat, 0) # {}

\* the least element of a non-empty set of naturals
Min(S) == CHOOSE i \in S : \A j \in S : i <= j

(***************************************************************************)
(* Values.                                                                 *)
(***************************************************************************)
\* JavaScript's undefined (an absent header, an absent predicate)
Undefined == "undefined"

emptyPageUrl == "about:blank"

\* the addresses openAndWait is called with
Uris == {"", emptyPageUrl, "https://example.com/"}

\* the selector option as the caller passes it: a string or an array
SelectorArgs ==
    { [type |-> "string", str |-> "#a",  arr |-> <<>>],
      [type |-> "string", str |-> "",    arr |-> <<>>],
      [type |-> "array",  str |-> "",    arr |-> <<>>],
      [type |-> "array",  str |-> "",    arr |-> <<"#a", "#b">>] }

\* an element of ignoreNetworkErrorsPatterns: a string, or a RegExp given by
\* its source (a literal text, no metacharacters) and its global flag
StringPattern(s) == [type |-> "string", source |-> s,   global |-> FALSE]
RegExpPattern(src, g) == [type |-> "regexp", source |-> src, global |-> g]

PatternLists ==
    { <<>>,
      <<StringPattern("cdn.example.com")>>,
      <<RegExpPattern("cdn", FALSE)>>,
      <<RegExpPattern("cdn", TRUE)>> }

\* the shouldThrowError option: the default classification, or a caller's
\* function (here: one that always throws, one that never does)
ShouldThrowArgs == {"default", "always", "never"}

\* webdriverio Matches records of failing requests
Match(u, accept, status) == [url |-> u, Accept |-> accept, statusCode |-> status]

FailingMatches ==
    { Match("https://example.com/favicon.ico",  "image/*",    404),
      Match("https://example.com/favicon.ico",  "image/*",    500),
      Match("https://cdn.example.com/a.png",    "image/png",  404),
      Match("https://cdn.example.com/x.js",     "*/*",        500),
      Match("https://example.com/s.css",        "text/css",   404),
      Match("https://example.com/f.woff2",      Undefined,    404) }

NoMatch == Match("", Undefined, 0)

\* the messages of the errors the PageLoader and the session report
NavigationErrorMessage == "net::ERR_NAME_NOT_RESOLVED"
SelectorsErrorMessage  == "selectors were not found"
PredicateErrorMessage  == "predicate threw"

(***************************************************************************)
(* The classification of a failing match (const is, shouldThrowErrorDefault)*)
(***************************************************************************)
\* match.headers?.Accept?.includes(text): undefined, so falsy, without the header
AcceptIncludes(match, text) ==
    /\ match.Accept # Undefined
    /\ Includes(match.Accept, text)

isImage(match) == AcceptIncludes(match, "image")

isStylesheet(match) == AcceptIncludes(match, "text/css")

\* isFont with ".woff2" left out of the extensions
isFont_NoWoff2(match) == \E ext \in {".ttf", ".woff"} : EndsWith(match.url, ext)

isFont(match) == \E ext \in {".ttf", ".woff", ".woff2"} : EndsWith(match.url, ext)

isFavicon(match) == EndsWith(match.url, "/favicon.ico")

\* shouldThrowErrorDefault without its favicon test
shouldThrowErrorDefault_NoFavicon(match) ==
    isImage(match) \/ isStylesheet(match) \/ isFont(match)

shouldThrowErrorDefault(match) ==
    IF isFavicon(match)
    THEN FALSE
    ELSE isImage(match) \/ isStylesheet(match) \/ isFont(match)

\* the shouldThrowError in force: the caller's function or the default
shouldThrowError(fn, match) ==
    CASE fn = "default" -> shouldThrowErrorDefault(match)
      [] fn = "always"  -> TRUE
      [] fn = "never"   -> FALSE

(***************************************************************************)
(* isMatchPatterns: patterns.some(p => isString(p) ? str.includes(p)       *)
(*                                                  : p.exec(str))         *)
(* RegExp.prototype.exec reads and writes the lastIndex of a global        *)
(* RegExp, so the result is the answer together with the new lastIndex of  *)
(* every pattern.                                                          *)
(***************************************************************************)
\* pattern.exec(str) of a RegExp with literal source: li is its lastIndex
RegExpExec(pattern, li, str) ==
    LET start == IF pattern.global THEN li ELSE 0
        occ   == IF start > Len(str)
                 THEN {}
                 ELSE OccurrencesFrom(str, pattern.source, start)
    IN  [ found     |-> occ # {},
          lastIndex |-> IF ~pattern.global THEN li
                        ELSE IF occ # {} THEN Min(occ) + Len(pattern.source)
                        ELSE 0 ]

RECURSIVE SomeFrom(_, _, _, _)
\* Array.prototype.some from position k on: stops at the first truthy answer
SomeFrom(patterns, li, str, k) ==
    IF k > Len(patterns)
    THEN [found |-> FALSE, lastIndex |-> li]
    ELSE IF patterns[k].type = "string"
         THEN IF Includes(str, patterns[k].source)
              THEN [found |-> TRUE, lastIndex |-> li]
              ELSE SomeFrom(patterns, li, str, k + 1)
         ELSE LET r == RegExpExec(patterns[k], li[k], str)
                  l == [li EXCEPT ![k] = r.lastIndex]
              IN  IF r.found
                  THEN [found |-> TRUE, lastIndex |-> l]
                  ELSE SomeFrom(patterns, l, str, k + 1)

isMatchPatterns(patterns, li, str) == SomeFrom(patterns, li, str, 1)

(***************************************************************************)
(* The promise openAndWait builds: new Promise((resolve, reject) => ...).  *)
(* resolve and reject act on a pending promise only.                       *)
(***************************************************************************)
Pending == [state |-> "pending", value |-> Undefined]

resolve(p) ==
    IF p.state = "pending" THEN [state |-> "resolved", value |-> Undefined] ELSE p

\* a reject that also replaces the outcome of a settled promise
reject_Overwrite(p, message) == [state |-> "rejected", value |-> message]

reject(p, message) ==
    IF p.state = "pending" THEN [state |-> "rejected", value |-> message] ELSE p

\* a handleError that drops the error
handleError_Swallow(p, errMessage) == p

\* a handleError that rejects with the bare message of the error
handleError_NoPrefix(p, errMessage) == reject(p, errMessage)

\* const handleError = err => reject(new Error(`url: ${err.message}`))
handleError(p, errMessage) == reject(p, "url: " \o errMessage)

\* the message of a fatal network match without its status code
NetworkErrorMessage_NoStatus(match) == "url: couldn't get content from " \o match.url

\* the message of the rejection a fatal network match produces
NetworkErrorMessage(match) ==
    "url: couldn't get content from " \o match.url \o ": " \o ToString(match.statusCode)

\* a checkLoaded that never resolves
checkLoaded_Never(p, selRes, predRes, netRes) == p

\* a checkLoaded that resolves without looking at the flags
checkLoaded_Unguarded(p, selRes, predRes, netRes) == resolve(p)

\* const checkLoaded = () => { if (all three flags) resolve() }
checkLoaded(p, selRes, predRes, netRes) ==
    IF selRes /\ predRes /\ netRes THEN resolve(p) ELSE p

(***************************************************************************)
(* The synchronous head of openAndWait.                                    *)
(***************************************************************************)
isChrome(cfg) == cfg.browserName = "chrome"

isCDP(cfg) == cfg.automationProtocol = "devtools"

\* the flag as requested, the capability of the session not looked at
EffectiveWaitNetworkIdle_Requested(requested, cfg) == requested

\* waitNetworkIdle &&= isChrome || isCDP
EffectiveWaitNetworkIdle(requested, cfg) == requested /\ (isChrome(cfg) \/ isCDP(cfg))

\* the test of the blank branch without the reserved address
IsBlank_EmptyOnly(u) == u = ""

\* !uri || uri === emptyPageUrl
IsBlank(u) == u = "" \/ u = emptyPageUrl

\* a normalisation that takes every selector argument for an array
NormalizeSelectors_Passthrough(selector) == selector.arr

\* typeof selector === "string" ? [selector] : selector
NormalizeSelectors(selector) ==
    IF selector.type = "string" THEN <<selector.str>> ELSE selector.arr

\* the events openAndWait registers handlers for
EventNames ==
    { "pageLoadError", "selectorsError", "predicateError", "networkError",
      "selectorsExist", "predicateResolved", "networkResolved" }

(***************************************************************************)
(* State.                                                                  *)
(***************************************************************************)
VARIABLES
    uri,                \* the address openAndWait is called with
    opts,               \* its options, defaults of the session merged in
    config,             \* browser.config: browserName, automationProtocol
    phase,              \* "idle" before the call, then "blank" or "loader"
    waitNetworkIdle,    \* the flag after waitNetworkIdle &&= isChrome || isCDP
    selectors,          \* the normalized selector list
    selectorsResolved,  \* let selectorsResolved
    predicateResolved,  \* let predicateResolved
    networkResolved,    \* let networkResolved
    promise,            \* the promise openAndWait builds
    returned,           \* the promise the caller holds (after .finally)
    lastIndex,          \* lastIndex of each RegExp among the ignore patterns
    pageLoaderCreated,  \* new PageLoader(...) was executed
    listeners,          \* events with a handler attached to the PageLoader
    unsubscribeCalls,   \* how often pageLoader.unsubscribe() was called
    nav,                \* session.url(uri): "idle", "inProgress", "ok", "failed"
    load,               \* the promise of pageLoader.load: "idle", "pending", "fulfilled"
    selWatcher,         \* "idle", "armed", "resolved", "errored"
    predWatcher,        \* "idle", "armed", "resolved", "errored"
    netWatcher,         \* "idle", "armed", "resolved"
    netErrors,          \* networkError events emitted so far
    lateEvent,          \* history: the last event received after the promise settled
    lastNet,            \* history: the last networkError received and its verdict
    flagsRead           \* history: checkLoaded has consulted the flags

vars ==
    << uri, opts, config, phase, waitNetworkIdle, selectors, selectorsResolved,
       predicateResolved, networkResolved, promise, returned, lastIndex,
       pageLoaderCreated, listeners, unsubscribeCalls, nav, load, selWatcher,
       predWatcher, netWatcher, netErrors, lateEvent,
       lastNet, flagsRead >>

inputVars == << uri, opts, config >>

flagVars == << selectorsResolved, predicateResolved, networkResolved >>

watcherVars == << selWatcher, predWatcher, netWatcher, netErrors >>

\* the options of a call, after the defaults of lines 52-59 are merged in:
\* every setting of the readiness options with the session's usual network
\* options, and every setting of the network options with one readiness setting
ReadinessOptions ==
    [ selector                    : SelectorArgs,
      predicate                   : BOOLEAN,
      waitNetworkIdle             : BOOLEAN,
      failOnNetworkError          : BOOLEAN,
      shouldThrowError            : {"default"},
      ignoreNetworkErrorsPatterns : {<<>>} ]

NetworkOptions ==
    [ selector                    : {[type |-> "string", str |-> "#a", arr |-> <<>>]},
      predicate                   : {FALSE},
      waitNetworkIdle             : {TRUE},
      failOnNetworkError          : BOOLEAN,
      shouldThrowError            : ShouldThrowArgs,
      ignoreNetworkErrorsPatterns : PatternLists ]

Options == ReadinessOptions \cup NetworkOptions

Configs ==
    [ browserName        : {"chrome", "firefox"},
      automationProtocol : {"webdriver", "devtools"} ]

NoNet == [match |-> NoMatch, verdict |-> "none"]

Init ==
    /\ uri \in Uris
    /\ opts \in Options
    /\ config \in Configs
    /\ phase = "idle"
    /\ waitNetworkIdle = opts.waitNetworkIdle
    /\ selectors = <<>>
    /\ selectorsResolved = FALSE
    /\ predicateResolved = FALSE
    /\ networkResolved = FALSE
    /\ promise = Pending
    /\ returned = Pending
    /\ lastIndex = [k \in 1 .. Len(opts.ignoreNetworkErrorsPatterns) |-> 0]
    /\ pageLoaderCreated = FALSE
    /\ listeners = {}
    /\ unsubscribeCalls = 0
    /\ nav = "idle"
    /\ load = "idle"
    /\ selWatcher = "idle"
    /\ predWatcher = "idle"
    /\ netWatcher = "idle"
    /\ netErrors = 0
    /\ lateEvent = "none"
    /\ lastNet = NoNet
    /\ flagsRead = FALSE

(***************************************************************************)
(* openAndWait(uri, opts): the synchronous part of the call.               *)
(***************************************************************************)
\* the blank branch: return new Promise(resolve => session.url(uri).then(() => resolve()))
OpenBlank ==
    /\ phase = "idle"
    /\ IsBlank(uri)
    /\ phase' = "blank"
    /\ waitNetworkIdle' = EffectiveWaitNetworkIdle(opts.waitNetworkIdle, config)
    /\ nav' = "inProgress"
    /\ UNCHANGED << inputVars, selectors, flagVars, promise, returned, lastIndex,
                    pageLoaderCreated, listeners, unsubscribeCalls, load,
                    watcherVars, lateEvent, lastNet,
                    flagsRead >>

\* the other branch: the PageLoader and the flags are created, the seven
\* handlers are attached, and pageLoader.load(goToPage) starts the navigation
\* and arms the watchers
OpenWithLoader ==
    /\ phase = "idle"
    /\ ~IsBlank(uri)
    /\ phase' = "loader"
    /\ waitNetworkIdle' = EffectiveWaitNetworkIdle(opts.waitNetworkIdle, config)
    /\ selectors' = NormalizeSelectors(opts.selector)
    /\ pageLoaderCreated' = TRUE
    /\ selectorsResolved' = (Len(selectors') = 0)
    /\ predicateResolved' = ~opts.predicate
    /\ networkResolved' = ~waitNetworkIdle'
    /\ listeners' = EventNames
    /\ nav' = "inProgress"
    /\ load' = "pending"
    /\ selWatcher' = "armed"
    /\ predWatcher' = "armed"
    /\ netWatcher' = "armed"
    /\ UNCHANGED << inputVars, promise, returned, lastIndex, unsubscribeCalls,
                    netErrors, lateEvent, lastNet,
                    flagsRead >>

(***************************************************************************)
(* The blank branch: the navigation ends.                                  *)
(***************************************************************************)
\* session.url(uri) is fulfilled: the then-callback resolves the promise
BlankNavigationSucceeds ==
    /\ phase = "blank"
    /\ nav = "inProgress"
    /\ nav' = "ok"
    /\ promise' = resolve(promise)
    /\ returned' = promise'
    /\ UNCHANGED << inputVars, phase, waitNetworkIdle, selectors, flagVars,
                    lastIndex, pageLoaderCreated, listeners, unsubscribeCalls,
                    load, watcherVars, lateEvent,
                    lastNet, flagsRead >>

\* session.url(uri) is rejected: the then-callback does not run
BlankNavigationFails ==
    /\ phase = "blank"
    /\ nav = "inProgress"
    /\ nav' = "failed"
    /\ UNCHANGED << inputVars, phase, waitNetworkIdle, selectors, flagVars,
                    promise, returned, lastIndex, pageLoaderCreated, listeners,
                    unsubscribeCalls, load, watcherVars, lateEvent, lastNet, flagsRead >>

(***************************************************************************)
(* Delivery of an event of the PageLoader to the handler openAndWait       *)
(* attached for it.                                                        *)
(***************************************************************************)
Attached(event) == event \in listeners

\* the watchers poll and observe from load() until unsubscribe() cancels them
WatchersActive == phase = "loader" /\ unsubscribeCalls = 0

\* the history of a delivery
Received(event) ==
    lateEvent' = IF Attached(event) /\ promise.state # "pending" THEN event ELSE lateEvent

\* pageLoader.on(event, handleError)
OnError(event, errMessage) ==
    /\ promise' = IF Attached(event) THEN handleError(promise, errMessage) ELSE promise
    /\ Received(event)

(***************************************************************************)
(* The navigation of the loader branch.                                    *)
(***************************************************************************)
\* goToPage: await session.url(uri) is fulfilled
NavigationSucceeds ==
    /\ phase = "loader"
    /\ nav = "inProgress"
    /\ nav' = "ok"
    /\ UNCHANGED << inputVars, phase, waitNetworkIdle, selectors, flagVars,
                    promise, returned, lastIndex, pageLoaderCreated, listeners,
                    unsubscribeCalls, load, watcherVars, lateEvent, lastNet, flagsRead >>

\* goToPage is rejected: the PageLoader emits pageLoadError
PageLoadError ==
    /\ phase = "loader"
    /\ nav = "inProgress"
    /\ nav' = "failed"
    /\ OnError("pageLoadError", NavigationErrorMessage)
    /\ UNCHANGED << inputVars, phase, waitNetworkIdle, selectors, flagVars,
                    returned, lastIndex, pageLoaderCreated, listeners,
                    unsubscribeCalls, load, watcherVars, lastNet, flagsRead >>

\* pageLoader.load(goToPage).then(checkLoaded): load is fulfilled once the
\* navigation is over
LoadFulfilled ==
    /\ phase = "loader"
    /\ nav \in {"ok", "failed"}
    /\ load = "pending"
    /\ load' = "fulfilled"
    /\ promise' = checkLoaded(promise, selectorsResolved, predicateResolved, networkResolved)
    /\ flagsRead' = TRUE
    /\ UNCHANGED << inputVars, phase, waitNetworkIdle, selectors, flagVars,
                    returned, lastIndex, pageLoaderCreated, listeners,
                    unsubscribeCalls, nav, watcherVars, lateEvent, lastNet >>

(***************************************************************************)
(* The watchers of the PageLoader, each emitting its events.               *)
(***************************************************************************)
\* selectorsExist: selectorsResolved = true; checkLoaded()
SelectorsExist ==
    /\ WatchersActive
    /\ selWatcher = "armed"
    /\ selWatcher' = "resolved"
    /\ selectorsResolved' = IF Attached("selectorsExist") THEN TRUE ELSE selectorsResolved
    /\ promise' = IF Attached("selectorsExist")
                  THEN checkLoaded(promise, selectorsResolved', predicateResolved, networkResolved)
                  ELSE promise
    /\ flagsRead' = IF Attached("selectorsExist") THEN TRUE ELSE flagsRead
    /\ Received("selectorsExist")
    /\ UNCHANGED << inputVars, phase, waitNetworkIdle, selectors,
                    predicateResolved, networkResolved, returned, lastIndex,
                    pageLoaderCreated, listeners, unsubscribeCalls, nav, load,
                    predWatcher, netWatcher, netErrors, lastNet >>

\* selectorsError: the wait for the requested selectors timed out
SelectorsError ==
    /\ WatchersActive
    /\ selWatcher = "armed"
    /\ Len(selectors) > 0
    /\ selWatcher' = "errored"
    /\ OnError("selectorsError", SelectorsErrorMessage)
    /\ UNCHANGED << inputVars, phase, waitNetworkIdle, selectors, flagVars,
                    returned, lastIndex, pageLoaderCreated, listeners,
                    unsubscribeCalls, nav, load, predWatcher, netWatcher,
                    netErrors, lastNet, flagsRead >>

\* a predicateResolved handler that sets the flag of the selectors
PredicateResolved_SetsSelectors ==
    /\ WatchersActive
    /\ predWatcher = "armed"
    /\ predWatcher' = "resolved"
    /\ selectorsResolved' = TRUE
    /\ promise' = checkLoaded(promise, selectorsResolved', predicateResolved, networkResolved)
    /\ flagsRead' = TRUE
    /\ Received("predicateResolved")
    /\ UNCHANGED << inputVars, phase, waitNetworkIdle, selectors,
                    predicateResolved, networkResolved, returned, lastIndex,
                    pageLoaderCreated, listeners, unsubscribeCalls, nav, load,
                    selWatcher, netWatcher, netErrors, lastNet >>

\* predicateResolved: predicateResolved = true; checkLoaded()
PredicateResolved ==
    /\ WatchersActive
    /\ predWatcher = "armed"
    /\ predWatcher' = "resolved"
    /\ predicateResolved' = IF Attached("predicateResolved") THEN TRUE ELSE predicateResolved
    /\ promise' = IF Attached("predicateResolved")
                  THEN checkLoaded(promise, selectorsResolved, predicateResolved', networkResolved)
                  ELSE promise
    /\ flagsRead' = IF Attached("predicateResolved") THEN TRUE ELSE flagsRead
    /\ Received("predicateResolved")
    /\ UNCHANGED << inputVars, phase, waitNetworkIdle, selectors,
                    selectorsResolved, networkResolved, returned, lastIndex,
                    pageLoaderCreated, listeners, unsubscribeCalls, nav, load,
                    selWatcher, netWatcher, netErrors, lastNet >>

\* predicateError: the evaluation of the supplied predicate threw
PredicateError ==
    /\ WatchersActive
    /\ predWatcher = "armed"
    /\ opts.predicate
    /\ predWatcher' = "errored"
    /\ OnError("predicateError", PredicateErrorMessage)
    /\ UNCHANGED << inputVars, phase, waitNetworkIdle, selectors, flagVars,
                    returned, lastIndex, pageLoaderCreated, listeners,
                    unsubscribeCalls, nav, load, selWatcher, netWatcher,
                    netErrors, lastNet, flagsRead >>

\* networkResolved: networkResolved = true; checkLoaded()
NetworkResolved ==
    /\ WatchersActive
    /\ netWatcher = "armed"
    /\ netWatcher' = "resolved"
    /\ networkResolved' = IF Attached("networkResolved") THEN TRUE ELSE networkResolved
    /\ promise' = IF Attached("networkResolved")
                  THEN checkLoaded(promise, selectorsResolved, predicateResolved, networkResolved')
                  ELSE promise
    /\ flagsRead' = IF Attached("networkResolved") THEN TRUE ELSE flagsRead
    /\ Received("networkResolved")
    /\ UNCHANGED << inputVars, phase, waitNetworkIdle, selectors,
                    selectorsResolved, predicateResolved, returned, lastIndex,
                    pageLoaderCreated, listeners, unsubscribeCalls, nav, load,
                    selWatcher, predWatcher, netErrors, lastNet >>

\* a handler of networkError that does not look at failOnNetworkError
onNetworkError_NoFailCheck(o, li, match) ==
    LET shouldIgnore == isMatchPatterns(o.ignoreNetworkErrorsPatterns, li, match.url)
    IN  [ verdict   |-> IF shouldIgnore.found THEN "ignored"
                        ELSE IF shouldThrowError(o.shouldThrowError, match) THEN "fatal"
                        ELSE "passed",
          lastIndex |-> shouldIgnore.lastIndex ]

\* the handler of networkError: what it decides about a match, and the
\* lastIndex it leaves in the patterns
\*   "off"      failOnNetworkError is false: return
\*   "ignored"  isMatchPatterns(ignoreNetworkErrorsPatterns, match.url)
\*   "passed"   shouldThrowError(match) is falsy
\*   "fatal"    reject(...)
onNetworkError(o, li, match) ==
    IF ~o.failOnNetworkError
    THEN [verdict |-> "off", lastIndex |-> li]
    ELSE LET shouldIgnore == isMatchPatterns(o.ignoreNetworkErrorsPatterns, li, match.url)
         IN  [ verdict   |-> IF shouldIgnore.found THEN "ignored"
                             ELSE IF shouldThrowError(o.shouldThrowError, match) THEN "fatal"
                             ELSE "passed",
               lastIndex |-> shouldIgnore.lastIndex ]

\* networkError: a request of the observed traffic failed
NetworkError(match) ==
    /\ WatchersActive
    /\ waitNetworkIdle
    /\ netErrors < MaxNetErrors
    /\ netErrors' = netErrors + 1
    /\ LET on  == Attached("networkError")
           res == onNetworkError(opts, lastIndex, match)
       IN  /\ lastIndex' = IF on THEN res.lastIndex ELSE lastIndex
           /\ promise' = IF on /\ res.verdict = "fatal"
                         THEN reject(promise, NetworkErrorMessage(match))
                         ELSE promise
           /\ lastNet' = IF on
                         THEN [match |-> match, verdict |-> res.verdict]
                         ELSE lastNet
    /\ Received("networkError")
    /\ UNCHANGED << inputVars, phase, waitNetworkIdle, selectors, flagVars,
                    returned, pageLoaderCreated, listeners, unsubscribeCalls,
                    nav, load, selWatcher, predWatcher, netWatcher, flagsRead >>

(***************************************************************************)
(* .finally(() => pageLoader.unsubscribe()): runs once the promise has     *)
(* settled; the promise the caller holds then takes the same outcome.      *)
(***************************************************************************)
\* pageLoader.unsubscribe(): what is left of the attached listeners
unsubscribe(attached) == {}

\* the promise of the caller settles without the finally callback
Finally_NoUnsubscribe ==
    /\ phase = "loader"
    /\ promise.state # "pending"
    /\ returned.state = "pending"
    /\ returned' = promise
    /\ UNCHANGED << inputVars, phase, waitNetworkIdle, selectors, flagVars,
                    promise, lastIndex, pageLoaderCreated, listeners,
                    unsubscribeCalls, nav, load, watcherVars, lateEvent,
                    lastNet, flagsRead >>

Finally ==
    /\ phase = "loader"
    /\ promise.state # "pending"
    /\ returned.state = "pending"
    /\ unsubscribeCalls' = unsubscribeCalls + 1
    /\ listeners' = unsubscribe(listeners)
    /\ returned' = promise
    /\ UNCHANGED << inputVars, phase, waitNetworkIdle, selectors, flagVars,
                    promise, lastIndex, pageLoaderCreated, nav, load,
                    watcherVars, lateEvent, lastNet,
                    flagsRead >>

Next ==
    \/ OpenBlank
    \/ OpenWithLoader
    \/ BlankNavigationSucceeds
    \/ BlankNavigationFails
    \/ NavigationSucceeds
    \/ PageLoadError
    \/ LoadFulfilled
    \/ SelectorsExist
    \/ SelectorsError
    \/ PredicateResolved
    \/ PredicateError
    \/ NetworkResolved
    \/ \E match \in FailingMatches : NetworkError(match)
    \/ Finally

Spec == Init /\ [][Next]_vars

(***************************************************************************)
(* Vocabulary of the properties.                                           *)
(***************************************************************************)
Settled(p) == p.state # "pending"

RejectedWith(message) == [state |-> "rejected", value |-> message]

\* the promise was rejected by the handler of networkError for this match
RejectedBy(match) == promise = RejectedWith(NetworkErrorMessage(match))

\* the url matches the pattern: a string by containment, a RegExp (of literal
\* source) when its source occurs in the url
UrlMatches(pattern, url) ==
    \E i \in 0 .. Len(url) :
        /\ i + Len(pattern.source) <= Len(url)
        /\ SubSeq(url, i + 1, i + Len(pattern.source)) = pattern.source

UrlMatchesSome(patterns, url) == \E k \in 1 .. Len(patterns) : UrlMatches(patterns[k], url)

\* a session that can observe the network traffic
Capable == config.browserName = "chrome" \/ config.automationProtocol = "devtools"

(***************************************************************************)
(* C1: on the non-blank path, for every interleaving of the navigation     *)
(* outcome and the watcher events, the promise settles at most once, is    *)
(* never both resolved and rejected, and once it has settled no later      *)
(* event changes its outcome; the same holds of the promise the caller     *)
(* holds.                                                                  *)
(***************************************************************************)
C1_SettlesAtMostOnce ==
    [][ /\ (Settled(promise) => promise' = promise)
        /\ (Settled(returned) => returned' = returned)
        /\ (Settled(returned') => returned' = promise') ]_vars

\* a fatal networkError arrived after the promise had been resolved
C1_Witness ==
    /\ phase = "loader"
    /\ promise.state = "resolved"
    /\ lateEvent = "networkError"
    /\ lastNet.verdict = "fatal"

(***************************************************************************)
(* C2: on the non-blank path the promise is resolved only in a state where *)
(* selectorsResolved, predicateResolved and networkResolved are all true;  *)
(* with a non-empty selector list it is never resolved before the          *)
(* selectorsExist event has been delivered.                                *)
(***************************************************************************)
C2_ResolvedOnlyWhenAllResolved ==
    (phase = "loader" /\ promise.state = "resolved") =>
        /\ selectorsResolved /\ predicateResolved /\ networkResolved
        /\ (Len(selectors) > 0 => selWatcher = "resolved")

\* selectors #a and #b, no predicate, no network wait: resolved
C2_Witness ==
    /\ phase = "loader"
    /\ selectors = <<"#a", "#b">>
    /\ ~opts.predicate
    /\ ~waitNetworkIdle
    /\ promise.state = "resolved"
    /\ selWatcher = "resolved"

(***************************************************************************)
(* C3: an error delivered while the promise is pending (pageLoadError,     *)
(* selectorsError, predicateError, or a networkError the handler does not  *)
(* filter out) rejects it with the rejection of that error, and a later    *)
(* error does not replace the rejection.                                   *)
(***************************************************************************)
C3_FirstErrorRejects ==
    [][ /\ (promise.state = "pending" /\ PageLoadError /\ Attached("pageLoadError"))
              => promise' = RejectedWith("url: net::ERR_NAME_NOT_RESOLVED")
        /\ (promise.state = "pending" /\ SelectorsError)
              => promise' = RejectedWith("url: selectors were not found")
        /\ (promise.state = "pending" /\ PredicateError)
              => promise' = RejectedWith("url: predicate threw")
        /\ \A m \in FailingMatches :
              (promise.state = "pending" /\ NetworkError(m) /\ lastNet'.verdict = "fatal")
                  => promise' = RejectedWith(NetworkErrorMessage(m))
        /\ (promise.state = "rejected" => promise' = promise) ]_vars

\* rejected by the predicate's error, and a selectorsError arrived later
C3_Witness ==
    /\ promise = RejectedWith("url: predicate threw")
    /\ lateEvent = "selectorsError"

(***************************************************************************)
(* C4: a predicateError delivered before settlement rejects the promise    *)
(* with the "url: "-prefixed text of the error; after a predicateError the *)
(* promise is rejected for good, and no selectorsExist or networkResolved  *)
(* delivered afterwards turns the outcome into success.                    *)
(***************************************************************************)
C4_PredicateErrorRejects ==
    /\ [](predWatcher = "errored" => promise.state = "rejected")
    /\ [][ (promise.state = "pending" /\ PredicateError)
               => promise' = RejectedWith("url: " \o PredicateErrorMessage) ]_vars
    /\ [][ (predWatcher = "errored" /\ (SelectorsExist \/ NetworkResolved))
               => promise' = promise ]_vars

\* rejected by the predicate's error, and selectorsExist arrived later
C4_Witness ==
    /\ promise = RejectedWith("url: predicate threw")
    /\ predWatcher = "errored"
    /\ lateEvent \in {"selectorsExist", "networkResolved"}

(***************************************************************************)
(* C5 (as stated): whenever the promise the caller holds has settled,      *)
(* unsubscribe has been invoked exactly once and no listener is attached,  *)
(* for every uri, the empty and the blank-page uri included.               *)
(***************************************************************************)
C5_UnsubscribeOnceForEveryUri ==
    Settled(returned) => (unsubscribeCalls = 1 /\ listeners = {})

(***************************************************************************)
(* C5 (amended): on the non-blank path unsubscribe is invoked exactly once,*)
(* when the outcome has settled (not before, never twice), on the success  *)
(* and on the failure path, and no listener is attached afterwards; on the *)
(* blank path no PageLoader exists and unsubscribe is never invoked.       *)
(***************************************************************************)
C5_UnsubscribeOnceOnLoaderPath ==
    /\ unsubscribeCalls <= 1
    /\ (phase = "loader" /\ Settled(returned)) => (unsubscribeCalls = 1 /\ listeners = {})
    /\ (phase = "loader" /\ ~Settled(promise)) => (unsubscribeCalls = 0 /\ listeners = EventNames)
    /\ (phase = "blank") => (unsubscribeCalls = 0 /\ ~pageLoaderCreated /\ listeners = {})

\* the caller holds a rejection, unsubscribe ran once
C5_Witness ==
    /\ phase = "loader"
    /\ returned.state = "rejected"
    /\ unsubscribeCalls = 1
    /\ listeners = {}

(***************************************************************************)
(* C6: for uri "" and uri "about:blank" the promise is resolved in the     *)
(* step in which session.url completes, no PageLoader is constructed, no   *)
(* handler is registered, no watcher runs and no readiness flag is         *)
(* consulted, whatever selectors, predicate or waitNetworkIdle are asked.  *)
(***************************************************************************)
C6_BlankBypassesWatchers ==
    (uri \in {"", "about:blank"} /\ phase # "idle") =>
        /\ ~pageLoaderCreated
        /\ listeners = {}
        /\ ~flagsRead
        /\ load = "idle"
        /\ selWatcher = "idle" /\ predWatcher = "idle" /\ netWatcher = "idle"
        /\ unsubscribeCalls = 0
        /\ (nav = "ok" <=> promise.state = "resolved")
        /\ promise.state # "rejected"
        /\ returned = promise

\* about:blank with selectors, a predicate and the network wait requested
C6_Witness ==
    /\ uri = "about:blank"
    /\ opts.selector.arr = <<"#a", "#b">>
    /\ opts.predicate
    /\ opts.waitNetworkIdle
    /\ nav = "ok"
    /\ returned.state = "resolved"

(***************************************************************************)
(* C7 (as stated): with failOnNetworkError true, a failing match whose url *)
(* ends in "/favicon.ico" never rejects the promise, for every setting of  *)
(* the other options, a caller's shouldThrowError included.                *)
(***************************************************************************)
C7_FaviconNeverRejects ==
    \A m \in FailingMatches :
        (opts.failOnNetworkError /\ EndsWith(m.url, "/favicon.ico")) => ~RejectedBy(m)

(***************************************************************************)
(* C7 (amended): with failOnNetworkError true and the default              *)
(* shouldThrowError (no override by the caller), a failing match whose url *)
(* ends in "/favicon.ico" never rejects the promise, whatever its status   *)
(* code and the other options.                                             *)
(***************************************************************************)
C7_FaviconNeverRejectsByDefault ==
    /\ \A m \in FailingMatches :
          (opts.shouldThrowError = "default" /\ EndsWith(m.url, "/favicon.ico"))
              => ~RejectedBy(m)
    /\ (opts.shouldThrowError = "default" /\ EndsWith(lastNet.match.url, "/favicon.ico"))
          => lastNet.verdict # "fatal"

\* a favicon answered 500 was received and let through, the promise is pending
C7_Witness ==
    /\ opts.failOnNetworkError
    /\ opts.shouldThrowError = "default"
    /\ ~UrlMatchesSome(opts.ignoreNetworkErrorsPatterns, lastNet.match.url)
    /\ EndsWith(lastNet.match.url, "/favicon.ico")
    /\ lastNet.match.statusCode = 500
    /\ lastNet.verdict = "passed"
    /\ promise.state = "pending"

(***************************************************************************)
(* C8: a failing match whose url matches one of the caller's ignore        *)
(* patterns (a string by containment, a RegExp by execution against the    *)
(* url) never rejects the promise, whatever shouldThrowError answers.      *)
(***************************************************************************)
C8_IgnoredPatternNeverRejects ==
    \A m \in FailingMatches :
        UrlMatchesSome(opts.ignoreNetworkErrorsPatterns, m.url) => ~RejectedBy(m)

(***************************************************************************)
(* C9 (as stated): with failOnNetworkError true and the default            *)
(* shouldThrowError, every failing match received that matches no ignore   *)
(* pattern and is not the favicon is fatal: once it is received the        *)
(* promise is no longer pending.                                           *)
(***************************************************************************)
C9_EveryOtherFailureIsFatal ==
    ( /\ opts.failOnNetworkError
      /\ opts.shouldThrowError = "default"
      /\ lastNet.verdict # "none"
      /\ ~UrlMatchesSome(opts.ignoreNetworkErrorsPatterns, lastNet.match.url)
      /\ ~EndsWith(lastNet.match.url, "/favicon.ico") )
    => (lastNet.verdict = "fatal" /\ promise.state # "pending")

(***************************************************************************)
(* C9 (amended): with failOnNetworkError true and the default              *)
(* shouldThrowError, a failing match received that matches no ignore       *)
(* pattern and is not the favicon is fatal exactly when it is an image     *)
(* (Accept contains "image"), a stylesheet (Accept contains "text/css") or *)
(* a font (url ends in .ttf, .woff or .woff2), and then the promise is no  *)
(* longer pending; any other failure (a script, an XHR) is let through.    *)
(***************************************************************************)
C9_AssetFailuresAreFatal ==
    ( /\ opts.failOnNetworkError
      /\ opts.shouldThrowError = "default"
      /\ lastNet.verdict # "none"
      /\ ~UrlMatchesSome(opts.ignoreNetworkErrorsPatterns, lastNet.match.url)
      /\ ~EndsWith(lastNet.match.url, "/favicon.ico") )
    => LET m     == lastNet.match
           asset == \/ (m.Accept # Undefined /\ UrlMatches(StringPattern("image"), m.Accept))
                    \/ (m.Accept # Undefined /\ UrlMatches(StringPattern("text/css"), m.Accept))
                    \/ EndsWith(m.url, ".ttf")
                    \/ EndsWith(m.url, ".woff")
                    \/ EndsWith(m.url, ".woff2")
       IN  /\ lastNet.verdict = (IF asset THEN "fatal" ELSE "passed")
           /\ (asset => promise.state # "pending")

\* the font f.woff2 failed and rejected the promise
C9_Witness ==
    /\ opts.failOnNetworkError
    /\ opts.shouldThrowError = "default"
    /\ lastNet.match.url = "https://example.com/f.woff2"
    /\ lastNet.verdict = "fatal"
    /\ RejectedBy(lastNet.match)

(***************************************************************************)
(* C10: the effective waitNetworkIdle is the conjunction of the requested  *)
(* flag and the capability of the session (browserName "chrome" or         *)
(* automationProtocol "devtools"); in a session without the capability     *)
(* networkResolved is true from the start, so that the promise is resolved *)
(* without a networkResolved event.                                        *)
(***************************************************************************)
C10_EffectiveWaitNetworkIdle ==
    /\ (phase # "idle") => (waitNetworkIdle <=> (opts.waitNetworkIdle /\ Capable))
    /\ (phase = "loader") => (networkResolved <=> (~waitNetworkIdle \/ netWatcher = "resolved"))
    /\ (phase = "loader" /\ ~Capable) => networkResolved

\* firefox over webdriver, the network wait requested: resolved while the
\* network watcher has not emitted networkResolved
C10_Witness ==
    /\ phase = "loader"
    /\ ~Capable
    /\ opts.waitNetworkIdle
    /\ netWatcher = "armed"
    /\ returned.state = "resolved"

(***************************************************************************)
(* C11: a rejection caused by a navigation, selector or predicate error    *)
(* carries "url: " followed by the message of that error; a rejection      *)
(* caused by a network error carries "url: couldn't get content from       *)
(* <url>: <statusCode>" with the url and the status code of the match that *)
(* caused it; a resolution carries no value; the promise the caller holds  *)
(* carries the same.                                                       *)
(***************************************************************************)
C11_OutcomeMessages ==
    /\ [](promise.state = "resolved" => promise.value = Undefined)
    /\ [](Settled(returned) => returned = promise)
    /\ [][ /\ (promise.state = "pending" /\ promise'.state = "rejected" /\ PageLoadError)
                 => promise'.value = "url: " \o NavigationErrorMessage
           /\ (promise.state = "pending" /\ promise'.state = "rejected" /\ SelectorsError)
                 => promise'.value = "url: " \o SelectorsErrorMessage
           /\ (promise.state = "pending" /\ promise'.state = "rejected" /\ PredicateError)
                 => promise'.value = "url: " \o PredicateErrorMessage
           /\ \A m \in FailingMatches :
                 (promise.state = "pending" /\ promise'.state = "rejected" /\ NetworkError(m))
                     => promise'.value = "url: couldn't get content from " \o m.url
                                             \o ": " \o ToString(m.statusCode)
           /\ (promise.state = "pending" /\ promise'.state = "rejected")
                 => (PageLoadError \/ SelectorsError \/ PredicateError
                        \/ \E m \in FailingMatches : NetworkError(m)) ]_vars

\* the caller holds the rejection of the stylesheet answered 404
C11_Witness ==
    returned = RejectedWith("url: couldn't get content from https://example.com/s.css: 404")

(***************************************************************************)
(* C12: at the start of a non-blank invocation each readiness flag is true *)
(* exactly when its feature is not requested (no selector, no predicate,   *)
(* no effective network wait); a flag that starts false becomes true only  *)
(* on the delivery of the resolved event of its own watcher, and a flag    *)
(* never goes back to false.                                               *)
(***************************************************************************)
C12_ReadinessFlags ==
    [][ /\ OpenWithLoader =>
              /\ selectorsResolved' <=> (opts.selector.type = "array" /\ opts.selector.arr = <<>>)
              /\ predicateResolved' <=> ~opts.predicate
              /\ networkResolved' <=> ~(opts.waitNetworkIdle /\ Capable)
        /\ (phase = "loader" /\ ~selectorsResolved /\ selectorsResolved') => SelectorsExist
        /\ (phase = "loader" /\ ~predicateResolved /\ predicateResolved') => PredicateResolved
        /\ (phase = "loader" /\ ~networkResolved /\ networkResolved') => NetworkResolved
        /\ (phase = "loader" /\ selectorsResolved) => selectorsResolved'
        /\ (phase = "loader" /\ predicateResolved) => predicateResolved'
        /\ (phase = "loader" /\ networkResolved) => networkResolved' ]_vars

\* selectors and a predicate requested: the predicate has resolved, the
\* selectors have not
C12_Witness ==
    /\ phase = "loader"
    /\ Len(selectors) > 0
    /\ opts.predicate
    /\ predicateResolved
    /\ predWatcher = "resolved"
    /\ ~selectorsResolved

(***************************************************************************)
(* C13: on the non-blank path, with the promise still pending, the promise *)
(* is resolved in the very step in which the last outstanding readiness    *)
(* flag becomes true, without waiting for any further event such as the    *)
(* return of load().                                                       *)
(***************************************************************************)
C13_ResolvedWithLastFlag ==
    [][ ( /\ phase = "loader"
          /\ promise.state = "pending"
          /\ ~(selectorsResolved /\ predicateResolved /\ networkResolved)
          /\ (selectorsResolved' /\ predicateResolved' /\ networkResolved') )
        => promise'.state = "resolved" ]_vars

\* resolved by the last flag while the navigation is still in progress
C13_Witness ==
    /\ phase = "loader"
    /\ Len(selectors) > 0
    /\ promise.state = "resolved"
    /\ load = "pending"
    /\ nav = "inProgress"

(***************************************************************************)
(* C14: on every settling path of a non-blank invocation unsubscribe has   *)
(* been invoked by the time the caller observes the resolution or the      *)
(* rejection, and it is invoked only after the outcome has been decided.   *)
(***************************************************************************)
C14_ReleasedBeforeReported ==
    phase = "loader" =>
        /\ Settled(returned) => (unsubscribeCalls >= 1 /\ listeners = {})
        /\ unsubscribeCalls >= 1 => Settled(promise)

\* the caller observes a rejection, the listeners are gone
C14_Witness ==
    /\ phase = "loader"
    /\ returned.state = "rejected"
    /\ unsubscribeCalls = 1
    /\ listeners = {}

(***************************************************************************)
(* C15: with failOnNetworkError = false no networkError rejects the        *)
(* promise, whatever the match, the ignore patterns and the shouldThrowError*)
(* function; the handler returns before it consults the patterns or        *)
(* shouldThrowError.                                                       *)
(***************************************************************************)
C15_FailOnNetworkErrorOff ==
    /\ [](~opts.failOnNetworkError =>
             /\ \A m \in FailingMatches : ~RejectedBy(m)
             /\ lastNet.verdict \in {"none", "off"}
             /\ \A k \in DOMAIN lastIndex : lastIndex[k] = 0)
    /\ [][ \A m \in FailingMatches :
              (~opts.failOnNetworkError /\ NetworkError(m))
                  => (promise' = promise /\ lastNet'.verdict = "off") ]_vars

\* a match an always-throwing shouldThrowError would reject on was received,
\* the promise is still pending
C15_Witness ==
    /\ ~opts.failOnNetworkError
    /\ opts.shouldThrowError = "always"
    /\ lastNet.verdict = "off"
    /\ netErrors = MaxNetErrors
    /\ promise.state = "pending"

(***************************************************************************)
(* C16: a single selector string is normalised into a one-element          *)
(* sequence, an array is passed through unchanged; selectorsResolved       *)
(* starts true only for the empty array, and every single string, the      *)
(* empty one included, counts as requested selectors.                      *)
(***************************************************************************)
C16_SelectorNormalisation ==
    /\ [](phase = "loader" =>
             /\ opts.selector.type = "string" => selectors = << opts.selector.str >>
             /\ opts.selector.type = "array" => selectors = opts.selector.arr)
    /\ [][ OpenWithLoader =>
              /\ opts.selector.type = "string" => ~selectorsResolved'
              /\ selectorsResolved' <=> opts.selector = [type |-> "array", str |-> "", arr |-> <<>>] ]_vars

\* the empty string is waited for as a selector
C16_Witness ==
    /\ phase = "loader"
    /\ opts.selector.type = "string"
    /\ opts.selector.str = ""
    /\ selectors = << "" >>
    /\ ~selectorsResolved
    /\ selWatcher = "errored"
    /\ promise = RejectedWith("url: " \o SelectorsErrorMessage)

(***************************************************************************)
(* C17: every invocation settles once the navigation has completed or      *)
(* failed and every watcher has reached a terminal state; this includes    *)
(* the blank path when the navigation fails.  Stated over finite runs: in  *)
(* a state in which nothing the invocation waits for is outstanding, the   *)
(* promise is settled.                                                     *)
(***************************************************************************)
C17_SettledOnceAllTerminal ==
    /\ (phase = "blank" /\ nav \in {"ok", "failed"}) => Settled(promise)
    /\ ( /\ phase = "loader"
         /\ nav \in {"ok", "failed"}
         /\ load = "fulfilled"
         /\ selWatcher \in {"resolved", "errored"}
         /\ predWatcher \in {"resolved", "errored"}
         /\ netWatcher = "resolved" ) => Settled(promise)

(***************************************************************************)
(* C18: on the non-blank path the promise is never resolved before the     *)
(* navigation has completed, and never when the navigation failed, also    *)
(* when no feature is requested and a watcher emits its resolved event     *)
(* while the navigation is in progress.  Stated for that case: no selector,*)
(* no predicate, no effective network wait.                                *)
(***************************************************************************)
C18_NeverResolvedBeforeNavigation ==
    ( /\ phase = "loader"
      /\ Len(selectors) = 0 /\ ~opts.predicate /\ ~waitNetworkIdle
      /\ promise.state = "resolved" ) => nav = "ok"

(***************************************************************************)
(* C19: a networkError that is filtered out (failOnNetworkError false, the *)
(* url matches an ignore pattern, or shouldThrowError returns false)       *)
(* leaves the three readiness flags and the settlement as they were.       *)
(***************************************************************************)
C19_FilteredNetworkErrorChangesNothing ==
    [][ \A m \in FailingMatches :
           ( /\ NetworkError(m)
             /\ \/ ~opts.failOnNetworkError
                \/ UrlMatchesSome(opts.ignoreNetworkErrorsPatterns, m.url)
                \/ ~shouldThrowError(opts.shouldThrowError, m) )
           => /\ selectorsResolved' = selectorsResolved
              /\ predicateResolved' = predicateResolved
              /\ networkResolved' = networkResolved
              /\ promise' = promise
              /\ returned' = returned ]_vars
====
